---- MODULE Spec2Model ----
(***************************************************************************)
(* Model of the Waveshare 5.83" v2 e-paper driver (src/epd5in83_v2/mod.rs). *)
(*                                                                         *)
(* The driver is a sequential program over a bus/line interface.  Every    *)
(* public operation is a straight-line sequence of interface primitives    *)
(* (reset, cmd, data, data_x_times, wait_until_idle), each of which may    *)
(* fail; `?` returns the error at once.  The model executes an operation   *)
(* one primitive at a time and records what reached the bus, the way a     *)
(* recording test double of the interface would.                           *)
(*                                                                         *)
(* Byte sequences are kept run-length encoded (a sequence of runs          *)
(* [v |-> byte, n |-> count], adjacent runs having different bytes), so a  *)
(* 38880-byte frame is a value the checker can hold.                       *)
(***************************************************************************)
EXTENDS Integers, Sequences, FiniteSets, TLC

(***************************************************************************)
(* Program constants                                                       *)
(***************************************************************************)
WIDTH == 648
HEIGHT == 480
DEFAULT_BACKGROUND_COLOR == "White"
\* the polarity flag inverted
IS_BUSY_LOW_inverted == FALSE

IS_BUSY_LOW == TRUE
\* the count in bits, the division by 8 left out
NUM_DISPLAY_BITS_undivided == WIDTH * HEIGHT

NUM_DISPLAY_BITS == (WIDTH * HEIGHT) \div 8
SINGLE_BYTE_WRITE == TRUE

Colors == {"Black", "White"}

\* Color::get_byte_value (crate::color)
get_byte_value(c) == IF c = "White" THEN 255 ELSE 0

\* `x as u8`
AsU8(x) == x % 256

(***************************************************************************)
(* Byte sequences, run-length encoded                                      *)
(***************************************************************************)
RECURSIVE Bytes(_)
\* the encoding of an explicit byte sequence such as &[0x07, 0x07, 0x3F, 0x3F]
Bytes(s) ==
    IF s = <<>> THEN <<>>
    ELSE LET r == Bytes(Tail(s))
         IN  IF r # <<>> /\ r[1].v = Head(s)
             THEN <<[v |-> Head(s), n |-> r[1].n + 1]>> \o Tail(r)
             ELSE <<[v |-> Head(s), n |-> 1]>> \o r

\* count copies of one byte
Repeat(val, count) == IF count = 0 THEN <<>> ELSE <<[v |-> val, n |-> count]>>

RECURSIVE ByteLen(_)
\* buffer.len()
ByteLen(b) == IF b = <<>> THEN 0 ELSE b[1].n + ByteLen(Tail(b))

(***************************************************************************)
(* Interface primitives (crate::interface::DisplayInterface): what each    *)
(* puts on the bus or the lines.  A program is a sequence of primitives.   *)
(***************************************************************************)
Prim(k, c, d, lv) == [k |-> k, c |-> c, d |-> d, lv |-> lv]

\* interface.reset(spi, initial_delay, duration): pulse the reset line
interface_reset(initial_delay, duration) == <<Prim("reset", "", <<>>, "")>>

\* interface.cmd(spi, command): select = command, one opcode byte
interface_cmd(c) == <<Prim("cmd", c, <<>>, "")>>

\* interface.data(spi, data): select = data, the bytes in order
interface_data(d) == <<Prim("data", "", d, "")>>

\* interface.data_x_times(spi, val, repetitions): select = data, val repeated
interface_data_x_times(val, repetitions) ==
    <<Prim("data", "", Repeat(val, repetitions), "")>>

\* interface.cmd_with_data(spi, command, data): cmd then data
interface_cmd_with_data(c, d) == interface_cmd(c) \o interface_data(d)

\* the level of the busy line at which interface.wait_until_idle returns
IdleLevel(is_busy_low) == IF is_busy_low THEN "high" ELSE "low"

\* interface.wait_until_idle(spi, is_busy_low): suspend until the busy line
\* is at its idle level; lv is the level the wait watches for
interface_wait_until_idle(is_busy_low) ==
    <<Prim("wait", "", <<>>, IdleLevel(is_busy_low))>>

(***************************************************************************)
(* The driver's private helpers                                            *)
(***************************************************************************)
command(c) == interface_cmd(c)

send_data(d) == interface_data(d)

cmd_with_data(c, d) == interface_cmd_with_data(c, d)

wait_until_idle == interface_wait_until_idle(IS_BUSY_LOW)

width == WIDTH

height == HEIGHT

send_resolution ==
    LET w == width
        h == height
    IN  command("TconResolution")
        \o send_data(Bytes(<<AsU8(w \div 256)>>))
        \o send_data(Bytes(<<AsU8(w)>>))
        \o send_data(Bytes(<<AsU8(h \div 256)>>))
        \o send_data(Bytes(<<AsU8(h)>>))

(***************************************************************************)
(* The operations, as the sequence of primitives each one issues           *)
(***************************************************************************)
\* init with the panel settings written before the power-on wait
init_reordered ==
    interface_reset(2000, 50)
    \o cmd_with_data("PowerSetting", Bytes(<<7, 7, 63, 63>>))
    \o command("PowerOn")
    \o cmd_with_data("PanelSetting", Bytes(<<31>>))
    \o wait_until_idle
    \o send_resolution
    \o cmd_with_data("DualSPI", Bytes(<<0>>))
    \o cmd_with_data("VcomAndDataIntervalSetting", Bytes(<<16, 7>>))
    \o cmd_with_data("TconSetting", Bytes(<<34>>))
    \o wait_until_idle

\* init with the hardware reset issued after the power settings
init_reset_late ==
    cmd_with_data("PowerSetting", Bytes(<<7, 7, 63, 63>>))
    \o interface_reset(2000, 50)
    \o command("PowerOn")
    \o wait_until_idle
    \o cmd_with_data("PanelSetting", Bytes(<<31>>))
    \o send_resolution
    \o cmd_with_data("DualSPI", Bytes(<<0>>))
    \o cmd_with_data("VcomAndDataIntervalSetting", Bytes(<<16, 7>>))
    \o cmd_with_data("TconSetting", Bytes(<<34>>))
    \o wait_until_idle

init ==
    interface_reset(2000, 50)
    \o cmd_with_data("PowerSetting", Bytes(<<7, 7, 63, 63>>))
    \o command("PowerOn")
    \o wait_until_idle
    \o cmd_with_data("PanelSetting", Bytes(<<31>>))
    \o send_resolution
    \o cmd_with_data("DualSPI", Bytes(<<0>>))
    \o cmd_with_data("VcomAndDataIntervalSetting", Bytes(<<16, 7>>))
    \o cmd_with_data("TconSetting", Bytes(<<34>>))
    \o wait_until_idle

new == init

\* a sleep that does not wait after PowerOff
sleep_single_wait ==
    wait_until_idle
    \o command("PowerOff")
    \o cmd_with_data("DeepSleep", Bytes(<<165>>))

\* a sleep that sends another check byte with DeepSleep
sleep_wrong_check_byte ==
    wait_until_idle
    \o command("PowerOff")
    \o wait_until_idle
    \o cmd_with_data("DeepSleep", Bytes(<<90>>))

sleep ==
    wait_until_idle
    \o command("PowerOff")
    \o wait_until_idle
    \o cmd_with_data("DeepSleep", Bytes(<<165>>))

\* a wake_up that resumes without the hardware reset
wake_up_no_reset == Tail(init)

wake_up == init

\* an update_frame that waits for idle after the channel-2 write
update_frame_trailing_wait(self_color, buffer) ==
    LET color_value == get_byte_value(self_color)
    IN  wait_until_idle
        \o interface_cmd("DataStartTransmission1")
        \o interface_data_x_times(color_value, (WIDTH \div 8) * HEIGHT)
        \o interface_cmd_with_data("DataStartTransmission2", buffer)
        \o wait_until_idle

\* an update_frame in which the color also picks the channel of the buffer
update_frame_color_picks_channel(self_color, buffer) ==
    LET color_value == get_byte_value(self_color)
    IN  IF self_color = DEFAULT_BACKGROUND_COLOR
        THEN wait_until_idle
             \o interface_cmd("DataStartTransmission1")
             \o interface_data_x_times(color_value, (WIDTH \div 8) * HEIGHT)
             \o interface_cmd_with_data("DataStartTransmission2", buffer)
        ELSE wait_until_idle
             \o interface_cmd_with_data("DataStartTransmission1", buffer)
             \o interface_cmd("DataStartTransmission2")
             \o interface_data_x_times(color_value, (WIDTH \div 8) * HEIGHT)

update_frame(self_color, buffer) ==
    LET color_value == get_byte_value(self_color)
    IN  wait_until_idle
        \o interface_cmd("DataStartTransmission1")
        \o interface_data_x_times(color_value, (WIDTH \div 8) * HEIGHT)
        \o interface_cmd_with_data("DataStartTransmission2", buffer)

\* a display_frame that returns without waiting for the refresh
display_frame_no_wait ==
    command("DisplayRefresh")

display_frame ==
    command("DisplayRefresh")
    \o wait_until_idle

\* an update_and_display_frame that refreshes before it transmits
update_and_display_frame_refresh_first(self_color, buffer) ==
    display_frame
    \o update_frame(self_color, buffer)

update_and_display_frame(self_color, buffer) ==
    update_frame(self_color, buffer)
    \o display_frame

\* a clear_frame that fills both channels with 0xFF
clear_frame_same_fill ==
    wait_until_idle
    \o command("DataStartTransmission1")
    \o interface_data_x_times(255, NUM_DISPLAY_BITS)
    \o command("DataStartTransmission2")
    \o interface_data_x_times(255, NUM_DISPLAY_BITS)

clear_frame ==
    wait_until_idle
    \o command("DataStartTransmission1")
    \o interface_data_x_times(255, NUM_DISPLAY_BITS)
    \o command("DataStartTransmission2")
    \o interface_data_x_times(0, NUM_DISPLAY_BITS)

(***************************************************************************)
(* Inputs                                                                  *)
(***************************************************************************)
\* frame buffers a caller may pass: two of the panel's size, and an empty,
\* a short and an over-long one
Buffers ==
    { Repeat(0, NUM_DISPLAY_BITS),
      Repeat(170, NUM_DISPLAY_BITS - 1) \o Repeat(85, 1),
      <<>>,
      Bytes(<<1, 2>>),
      Repeat(0, NUM_DISPLAY_BITS + 1) }

UnitOps == {"wake_up", "sleep", "display_frame", "clear_frame"}
FrameOps == {"update_frame", "update_and_display_frame"}
\* the arguments of update_partial_frame other than the buffer: x, y, width, height
Coords == {0, 8}
RefreshLuts == {"None", "Full", "Quick"}

(***************************************************************************)
(* State                                                                   *)
(***************************************************************************)
VARIABLES
    epd,        \* "none": no driver instance; "ready": new has returned one
    color,      \* the field self.color
    busy,       \* level of the busy line, driven by the controller
    op,         \* the operation in progress, or the last one: [name, buf]
    pc,         \* 0: no operation in progress; k: about to issue primitive k
    waiting,    \* the caller is suspended in wait_until_idle
    woke,       \* the last primitive was a wait that returned after a suspension
    result,     \* how the last operation ended: "none", "Ok", "Err", "Panic"
    trace,      \* what the operation in progress (or the last) put on the bus
    prevOp,     \* name and result of the operation before op
    initTrace,  \* the trace recorded during the construction that succeeded
    ret,        \* the color the last call returned, "none" when it returned none
    lastSet,    \* the color of the last set_background_color, "none" since new
    asleep      \* the controller is in deep sleep: DeepSleep A5 and no reset since

vars == <<epd, color, busy, op, pc, waiting, woke, result, trace, prevOp, initTrace,
          ret, lastSet, asleep>>

Program(o, c) ==
    CASE o.name = "new" -> new
      [] o.name = "wake_up" -> wake_up
      [] o.name = "sleep" -> sleep
      [] o.name = "update_frame" -> update_frame(c, o.buf)
      [] o.name = "display_frame" -> display_frame
      [] o.name = "update_and_display_frame" -> update_and_display_frame(c, o.buf)
      [] o.name = "clear_frame" -> clear_frame
      [] OTHER -> <<>>

Init ==
    /\ epd = "none"
    /\ color \in Colors
    /\ busy \in {"low", "high"}
    /\ op = [name |-> "", buf |-> <<>>]
    /\ pc = 0
    /\ waiting = FALSE
    /\ woke = FALSE
    /\ result = "none"
    /\ trace = <<>>
    /\ prevOp = [name |-> "", res |-> "none"]
    /\ initTrace = <<>>
    /\ ret = "none"
    /\ lastSet = "none"
    /\ asleep = FALSE

\* calls are accepted while an operation is in progress
Idle_any_time == result # "Panic"

\* no operation is in progress and the program has not panicked
Idle == pc = 0 /\ result # "Panic"

\* the caller starts an operation: nothing is on the bus yet
Begin(name, buf) ==
    /\ op' = [name |-> name, buf |-> buf]
    /\ prevOp' = [name |-> op.name, res |-> result]
    /\ pc' = 1
    /\ waiting' = FALSE
    /\ woke' = FALSE
    /\ result' = "none"
    /\ trace' = <<>>
    /\ ret' = "none"

\* a constructor that leaves the color field as it finds it
CallNew_keeps_color ==
    /\ Idle
    /\ epd = "none"
    /\ Begin("new", <<>>)
    /\ lastSet' = "none"
    /\ UNCHANGED <<epd, color, busy, initTrace, asleep>>

\* Epd5in83::new: build the struct with the default color, then init
CallNew ==
    /\ Idle
    /\ epd = "none"
    /\ Begin("new", <<>>)
    /\ color' = DEFAULT_BACKGROUND_COLOR
    /\ lastSet' = "none"
    /\ UNCHANGED <<epd, busy, initTrace, asleep>>

\* a wake_up that puts the default color back
CallUnit_wake_restores_default(name) ==
    /\ Idle
    /\ epd = "ready"
    /\ Begin(name, <<>>)
    /\ color' = IF name = "wake_up" THEN DEFAULT_BACKGROUND_COLOR ELSE color
    /\ UNCHANGED <<epd, busy, initTrace, lastSet, asleep>>

\* sleep, wake_up, display_frame, clear_frame on the instance
CallUnit(name) ==
    /\ Idle
    /\ epd = "ready"
    /\ Begin(name, <<>>)
    /\ UNCHANGED <<epd, color, busy, initTrace, lastSet, asleep>>

\* update_frame, update_and_display_frame on the instance
CallFrame(name, buffer) ==
    /\ Idle
    /\ epd = "ready"
    /\ Begin(name, buffer)
    /\ UNCHANGED <<epd, color, busy, initTrace, lastSet, asleep>>

\* a setter: no primitive is issued, the call returns at once
set_background_color(c) ==
    /\ Idle
    /\ epd = "ready"
    /\ color' = c
    /\ op' = [name |-> "set_background_color", buf |-> <<>>]
    /\ prevOp' = [name |-> op.name, res |-> result]
    /\ result' = "Ok"
    /\ trace' = <<>>
    /\ ret' = "none"
    /\ lastSet' = c
    /\ UNCHANGED <<epd, busy, pc, waiting, woke, initTrace, asleep>>

\* a getter: no primitive is issued, the call returns &self.color
background_color ==
    /\ Idle
    /\ epd = "ready"
    /\ op' = [name |-> "background_color", buf |-> <<>>]
    /\ prevOp' = [name |-> op.name, res |-> result]
    /\ result' = "Ok"
    /\ trace' = <<>>
    /\ ret' = color
    /\ UNCHANGED <<epd, color, busy, pc, waiting, woke, initTrace, lastSet, asleep>>

\* a stub that returns Ok(()) instead of panicking
Unimplemented_returns_ok(name, buffer) ==
    /\ Idle
    /\ epd = "ready"
    /\ op' = [name |-> name, buf |-> buffer]
    /\ prevOp' = [name |-> op.name, res |-> result]
    /\ pc' = 0
    /\ result' = "Ok"
    /\ trace' = <<>>
    /\ ret' = "none"
    /\ UNCHANGED <<epd, color, busy, waiting, woke, initTrace, lastSet, asleep>>

\* unimplemented!(): the call panics before touching the interface
Unimplemented(name, buffer) ==
    /\ Idle
    /\ epd = "ready"
    /\ op' = [name |-> name, buf |-> buffer]
    /\ prevOp' = [name |-> op.name, res |-> result]
    /\ pc' = 0
    /\ result' = "Panic"
    /\ trace' = <<>>
    /\ ret' = "none"
    /\ UNCHANGED <<epd, color, busy, waiting, woke, initTrace, lastSet, asleep>>

update_partial_frame(buffer, x, y, w, h) == Unimplemented("update_partial_frame", buffer)

set_lut(refresh_rate) == Unimplemented("set_lut", <<>>)

\* the primitive at pc has succeeded, having put ev on the bus
Advance(ev) ==
    LET prog == Program(op, color)
    IN  /\ trace' = Append(trace, ev)
        /\ woke' = (ev.k = "wait" /\ waiting)
        /\ waiting' = FALSE
        /\ IF pc = Len(prog)
           THEN /\ pc' = 0
                /\ result' = "Ok"
                /\ epd' = IF op.name = "new" THEN "ready" ELSE epd
                /\ initTrace' = IF op.name = "new" THEN trace' ELSE initTrace
           ELSE /\ pc' = pc + 1
                /\ UNCHANGED <<result, epd, initTrace>>
        /\ asleep' = IF ev.k = "reset" THEN FALSE
                      ELSE IF /\ ev.k = "data"
                              /\ trace # <<>>
                              /\ trace[Len(trace)].c = "DeepSleep"
                           THEN TRUE
                           ELSE asleep
        /\ UNCHANGED <<color, busy, op, prevOp, ret, lastSet>>

\* a reset, cmd or data primitive completes
Step ==
    /\ pc > 0
    /\ Program(op, color)[pc].k # "wait"
    /\ Advance(Program(op, color)[pc])

\* wait_until_idle finds the line away from the level it watches for
WaitSuspend ==
    /\ pc > 0
    /\ Program(op, color)[pc].k = "wait"
    /\ busy # Program(op, color)[pc].lv
    /\ ~waiting
    /\ waiting' = TRUE
    /\ UNCHANGED <<epd, color, busy, op, pc, woke, result, trace, prevOp, initTrace, ret, lastSet, asleep>>

\* a wait that gives up and returns whatever the level of the line
WaitReturn_any_level ==
    /\ pc > 0
    /\ Program(op, color)[pc].k = "wait"
    /\ Advance(Prim("wait", "", <<>>, busy))

\* wait_until_idle returns: the line is at the level it watches for
WaitReturn ==
    /\ pc > 0
    /\ Program(op, color)[pc].k = "wait"
    /\ busy = Program(op, color)[pc].lv
    /\ Advance(Prim("wait", "", <<>>, busy))

\* the error of the primitive at pc is dropped and the operation goes on
Fault_ignored ==
    /\ pc > 0
    /\ pc' = IF pc = Len(Program(op, color)) THEN 0 ELSE pc + 1
    /\ result' = IF pc = Len(Program(op, color)) THEN "Ok" ELSE result
    /\ waiting' = FALSE
    /\ UNCHANGED <<epd, color, busy, op, woke, trace, prevOp, initTrace, ret, lastSet, asleep>>

\* the primitive at pc fails (bus or line fault); `?` returns the error
Fault ==
    /\ pc > 0
    /\ pc' = 0
    /\ waiting' = FALSE
    /\ result' = "Err"
    /\ UNCHANGED <<epd, color, busy, op, woke, trace, prevOp, initTrace, ret, lastSet, asleep>>

\* the controller drives the busy line
ControllerBusy ==
    /\ busy = "high"
    /\ busy' = "low"
    /\ UNCHANGED <<epd, color, op, pc, waiting, woke, result, trace, prevOp, initTrace, ret, lastSet, asleep>>

ControllerIdle ==
    /\ busy = "low"
    /\ busy' = "high"
    /\ UNCHANGED <<epd, color, op, pc, waiting, woke, result, trace, prevOp, initTrace, ret, lastSet, asleep>>

Next ==
    \/ CallNew
    \/ \E name \in UnitOps : CallUnit(name)
    \/ \E name \in FrameOps, buffer \in Buffers : CallFrame(name, buffer)
    \/ \E c \in Colors : set_background_color(c)
    \/ background_color
    \/ \E buffer \in Buffers, x, y, w, h \in Coords : update_partial_frame(buffer, x, y, w, h)
    \/ \E r \in RefreshLuts : set_lut(r)
    \/ Step
    \/ WaitSuspend
    \/ WaitReturn
    \/ Fault
    \/ ControllerBusy
    \/ ControllerIdle

Spec == Init /\ [][Next]_vars

\* the executions in which no primitive fails, the program keeps running and
\* the controller releases the busy line after it has raised it
NextFaultFree ==
    \/ CallNew
    \/ \E name \in UnitOps : CallUnit(name)
    \/ \E name \in FrameOps, buffer \in Buffers : CallFrame(name, buffer)
    \/ \E c \in Colors : set_background_color(c)
    \/ background_color
    \/ \E buffer \in Buffers, x, y, w, h \in Coords : update_partial_frame(buffer, x, y, w, h)
    \/ \E r \in RefreshLuts : set_lut(r)
    \/ Step
    \/ WaitSuspend
    \/ WaitReturn
    \/ ControllerBusy
    \/ ControllerIdle

FaultFree ==
    /\ Init
    /\ [][NextFaultFree]_vars
    /\ WF_vars(Step)
    /\ SF_vars(WaitReturn)
    /\ WF_vars(ControllerIdle)

(***************************************************************************)
(* Properties                                                              *)
(***************************************************************************)
\* the events a recording double of the interface captures
Reset == Prim("reset", "", <<>>, "")
Cmd(c) == Prim("cmd", c, <<>>, "")
Data(s) == Prim("data", "", Bytes(s), "")
Fill(val, count) == Prim("data", "", <<[v |-> val, n |-> count]>>, "")
WaitIdle == Prim("wait", "", <<>>, "high")

\* the operation named name has returned Ok and nothing was called since
Returned(name) == op.name = name /\ pc = 0 /\ result = "Ok"

InitTrace ==
    << Reset,
       Cmd("PowerSetting"), Data(<<7, 7, 63, 63>>),
       Cmd("PowerOn"),
       WaitIdle,
       Cmd("PanelSetting"), Data(<<31>>),
       Cmd("TconResolution"), Data(<<2>>), Data(<<136>>), Data(<<1>>), Data(<<224>>),
       Cmd("DualSPI"), Data(<<0>>),
       Cmd("VcomAndDataIntervalSetting"), Data(<<16, 7>>),
       Cmd("TconSetting"), Data(<<34>>),
       WaitIdle >>

\* C1: whatever the state init starts from (either background color, after
\* any earlier operation, failed or not), a run of init that returns Ok has
\* issued exactly the trace InitTrace: reset, the power, panel, resolution
\* (02 88 01 E0 as four one-byte writes), dual-SPI, Vcom and tcon settings
\* with their literal payloads, and the two waits, in this order.
C1_InitTrace ==
    (Returned("new") \/ Returned("wake_up")) => trace = InitTrace

\* init has run to the end from a driver whose color is black and whose
\* previous operation failed
C1_Witness ==
    /\ Returned("wake_up")
    /\ color = "Black"
    /\ prevOp.res = "Err"
    /\ Len(trace) = 19

\* C2: new returns an instance only after the whole init sequence: an
\* instance exists only if the construction recorded the complete init
\* trace; when new returns Ok the instance exists, its trace is complete and
\* its color is white; while new is running or when it has failed there is
\* no instance.
C2_NewReadyOrNothing ==
    /\ epd = "ready" => Len(initTrace) = Len(init) /\ initTrace[Len(initTrace)].k = "wait"
    /\ Returned("new") =>
          epd = "ready" /\ color = "White" /\ trace = initTrace /\ Len(trace) = Len(init)
    /\ (op.name = "new" /\ result # "Ok") => epd = "none"
    /\ (op.name = "new" /\ result = "Err") => pc = 0 /\ Len(trace) < Len(init)

\* a construction that succeeds after one that failed half way, started
\* with the color field black
C2_Witness ==
    /\ Returned("new")
    /\ prevOp = [name |-> "new", res |-> "Err"]
    /\ epd = "ready"

\* a construction that failed after part of init was issued
C2_WitnessFailed ==
    /\ op.name = "new" /\ result = "Err" /\ Len(trace) > 5 /\ epd = "none"

\* C3: the trace of a wake_up that directly follows a sleep is, event for
\* event, the trace init issued inside new.
C3_WakeEqualsConstruction ==
    (Returned("wake_up") /\ prevOp = [name |-> "sleep", res |-> "Ok"])
        => trace = initTrace

C3_Witness ==
    /\ Returned("wake_up")
    /\ prevOp = [name |-> "sleep", res |-> "Ok"]
    /\ trace[1].k = "reset"

\* C4: for a buffer of 38880 bytes, an update_and_display_frame that
\* returns Ok has issued exactly: wait, DataStartTransmission1, 38880 copies
\* of the background color's byte, DataStartTransmission2, the buffer,
\* DisplayRefresh, wait.
C4_UpdateAndDisplayTrace ==
    (Returned("update_and_display_frame") /\ ByteLen(op.buf) = 38880)
        => trace = << WaitIdle,
                      Cmd("DataStartTransmission1"),
                      Fill(get_byte_value(color), 38880),
                      Cmd("DataStartTransmission2"),
                      Prim("data", "", op.buf, ""),
                      Cmd("DisplayRefresh"),
                      WaitIdle >>

\* the operation has returned for a frame of two different bytes, with a
\* black background
C4_Witness ==
    /\ Returned("update_and_display_frame")
    /\ ByteLen(op.buf) = 38880
    /\ Len(op.buf) = 2
    /\ color = "Black"

\* C5 (as claimed): a frame operation given a buffer whose length is not
\* 38880 never returns Ok and never opens channel 2 for the buffer.
C5_RejectsOtherLengths ==
    (op.name \in FrameOps /\ ByteLen(op.buf) # 38880)
        => /\ result # "Ok"
           /\ \A i \in 1..Len(trace) : trace[i] # Cmd("DataStartTransmission2")

\* what the code does with a two-byte buffer: it is written to channel 2
\* and update_frame returns Ok
C5_ShortBufferAccepted ==
    /\ Returned("update_frame")
    /\ ByteLen(op.buf) = 2
    /\ trace[Len(trace)] = Prim("data", "", op.buf, "")
    /\ trace[Len(trace) - 1] = Cmd("DataStartTransmission2")

\* C6: a clear_frame that returns Ok has issued exactly: wait,
\* DataStartTransmission1, 38880 bytes of 0xFF, DataStartTransmission2,
\* 38880 bytes of 0x00; no DisplayRefresh, and the same bytes whatever was
\* transmitted before and whatever the background color.
C6_ClearFrameTrace ==
    Returned("clear_frame")
        => trace = << WaitIdle,
                      Cmd("DataStartTransmission1"),
                      Fill(255, 38880),
                      Cmd("DataStartTransmission2"),
                      Fill(0, 38880) >>

\* clear_frame has returned right after an update, with a black background
C6_Witness ==
    /\ Returned("clear_frame")
    /\ prevOp = [name |-> "update_frame", res |-> "Ok"]
    /\ color = "Black"

C8_SleepTrace ==
    /\ Returned("sleep")
          => trace = << WaitIdle, Cmd("PowerOff"), WaitIdle,
                        Cmd("DeepSleep"), Data(<<165>>) >>
    /\ \A i \in 1..Len(trace) :
          trace[i] = Cmd("DeepSleep")
              => /\ op.name = "sleep"
                 /\ i < Len(trace) => i + 1 = Len(trace) /\ trace[i + 1] = Data(<<165>>)
                 /\ i = Len(trace) => pc = i + 1 \/ result = "Err"

C8_Witness ==
    /\ Returned("sleep")
    /\ trace[4] = Cmd("DeepSleep")
    /\ Len(trace) = 5

\* C9: a display_frame that returns Ok has written the DisplayRefresh
\* opcode, no data and no other opcode, and after it has seen the busy line
\* at its idle (high) level.
C9_DisplayFrameTrace ==
    Returned("display_frame")
        => trace = << Cmd("DisplayRefresh"), WaitIdle >>

\* display_frame has returned after the line was busy during its wait
C9_Witness ==
    /\ Returned("display_frame")
    /\ woke
    /\ Len(trace) = 2

\* the wait events of the trace
WaitEvents == {i \in 1..Len(trace) : trace[i].k = "wait"}

\* C10: wait_until_idle returns only with the busy line high: every wait
\* recorded in the trace saw the line high, a caller suspended in the wait
\* has not returned from it, and a step that returns from the wait is taken
\* with the line high and records that one return.
C10_WaitReturnsOnIdle ==
    /\ [](/\ \A i \in WaitEvents : trace[i].lv = "high"
          /\ waiting => /\ pc > 0
                        /\ Program(op, color)[pc].k = "wait"
                        /\ Len(trace) = pc - 1)
    /\ [][(pc > 0 /\ Program(op, color)[pc].k = "wait" /\ trace' # trace)
            => /\ busy = "high"
               /\ busy' = "high"
               /\ trace' = Append(trace, WaitIdle)
               /\ ~waiting']_vars

\* a wait that found the line low has returned once the line went high
C10_Witness ==
    /\ woke
    /\ trace # <<>>
    /\ trace[Len(trace)] = WaitIdle
    /\ busy = "high"

\* the operations that issue primitives
SeqOps == {"new"} \cup UnitOps \cup FrameOps

\* the first n primitives of the operation in progress
Issued(n) == SubSeq(Program(op, color), 1, n)

\* C11: when a primitive fails at step k the operation returns the error
\* at once: the step that turns the result into Err issues nothing and ends
\* the operation, an operation that has returned Err has issued exactly the
\* steps before k, once each, and issues nothing afterwards; an operation
\* returns Ok only with every one of its steps issued once.
C11_FaultReturnsAtOnce ==
    /\ [](/\ result = "Err" => /\ pc = 0
                                /\ Len(trace) < Len(Program(op, color))
                                /\ trace = Issued(Len(trace))
          /\ pc > 0 => trace = Issued(pc - 1)
          /\ (op.name \in SeqOps /\ pc = 0 /\ result = "Ok")
                => trace = Program(op, color))
    /\ [][(result' = "Err" /\ result # "Err")
            => pc > 0 /\ pc' = 0 /\ trace' = trace /\ op' = op]_vars
    /\ [][(result = "Err" /\ result' = "Err") => UNCHANGED <<trace, pc, op>>]_vars

\* update_and_display_frame has failed at the DisplayRefresh opcode, after
\* the five primitives of the update
C11_Witness ==
    /\ op.name = "update_and_display_frame"
    /\ result = "Err"
    /\ pc = 0
    /\ Len(trace) = 5
    /\ trace[Len(trace)].k = "data"

\* a trace with the byte values of every flood fill (the data written right
\* after DataStartTransmission1) blanked, the counts kept
Masked(t) ==
    [i \in 1..Len(t) |->
        IF i > 1 /\ t[i - 1] = Cmd("DataStartTransmission1") /\ t[i].k = "data"
        THEN [t[i] EXCEPT !.d = [j \in 1..Len(t[i].d) |-> [v |-> 0, n |-> t[i].d[j].n]]]
        ELSE t[i]]

\* C12: set_background_color and background_color put nothing on the bus
\* or the lines and return at once; background_color returns the color of
\* the last set_background_color, white when there was none since new; and
\* the trace of every operation is, up to the byte values of the flood
\* fill, the one the operation issues with any other background color.
C12_ColorOnlyInFill ==
    /\ op.name \in {"set_background_color", "background_color"}
          => trace = <<>> /\ pc = 0 /\ result = "Ok"
    /\ op.name = "background_color"
          => ret = IF lastSet = "none" THEN "White" ELSE lastSet
    /\ op.name \in SeqOps
          => \A c \in Colors :
                Masked(trace) = Masked(SubSeq(Program(op, c), 1, Len(trace)))

\* the getter has returned black, set before the update that preceded it
C12_Witness ==
    /\ Returned("background_color")
    /\ prevOp = [name |-> "update_frame", res |-> "Ok"]
    /\ lastSet = "Black"
    /\ ret = "Black"

\* an update has put a black flood fill on channel 1
C12_WitnessFill ==
    /\ Returned("update_frame")
    /\ color = "Black"
    /\ trace[3] = Fill(0, 38880)

\* the positions of the trace that hold a flood fill
FillEvents ==
    {i \in 2..Len(trace) :
        trace[i - 1] = Cmd("DataStartTransmission1") /\ trace[i].k = "data"}

\* C13: the geometry is constant: width() is 648 and height() is 480 in
\* every state, the default color is white, the fill count of update_frame
\* (WIDTH / 8 * HEIGHT) and the one of clear_frame (WIDTH * HEIGHT / 8) are
\* both 38880 with every intermediate product below 2^32, every flood fill
\* on the bus has 38880 bytes, and the resolution init sends decodes to
\* 648 by 480.
C13_Geometry ==
    /\ width = 648 /\ height = 480
    /\ DEFAULT_BACKGROUND_COLOR = "White"
    /\ (WIDTH \div 8) * HEIGHT = 38880
    /\ (WIDTH * HEIGHT) \div 8 = 38880
    /\ NUM_DISPLAY_BITS = (WIDTH \div 8) * HEIGHT
    /\ (WIDTH * HEIGHT) \div 65536 < 65536
    /\ ((WIDTH \div 8) * HEIGHT) \div 65536 < 65536
    /\ \A i \in FillEvents : op.name \in FrameOps \cup {"clear_frame"} => ByteLen(trace[i].d) = 38880
    /\ (Returned("new") \/ Returned("wake_up"))
          => /\ trace[9].d[1].v * 256 + trace[10].d[1].v = 648
             /\ trace[11].d[1].v * 256 + trace[12].d[1].v = 480

\* an update has returned right after a clear_frame, both with their fill
C13_Witness ==
    /\ Returned("update_frame")
    /\ prevOp = [name |-> "clear_frame", res |-> "Ok"]
    /\ 3 \in FillEvents
    /\ ByteLen(trace[3].d) = 38880

\* C14: update_frame does not wait after its writes: when it returns Ok,
\* for a buffer of any length, its trace is wait, DataStartTransmission1,
\* the fill, DataStartTransmission2, the buffer, so its last event is the
\* channel-2 data and its only wait is the first event; and in update_frame
\* and update_and_display_frame every byte written after
\* DataStartTransmission1 is the background color's byte, whatever the buffer.
C14_UpdateFrameShape ==
    /\ Returned("update_frame")
          => /\ trace = << WaitIdle,
                           Cmd("DataStartTransmission1"),
                           Fill(get_byte_value(color), 38880),
                           Cmd("DataStartTransmission2"),
                           Prim("data", "", op.buf, "") >>
             /\ trace[Len(trace)].k = "data"
    /\ op.name = "update_frame" => WaitEvents \subseteq {1}
    /\ op.name \in FrameOps
          => \A i \in FillEvents :
                \A j \in 1..Len(trace[i].d) : trace[i].d[j].v = get_byte_value(color)

\* update_frame has returned for a frame of two different bytes, neither of
\* them the white background's byte
C14_Witness ==
    /\ Returned("update_frame")
    /\ Len(op.buf) = 2
    /\ color = "White"
    /\ WaitEvents = {1}
    /\ Len(trace) = 5

\* C15 (as claimed): while the panel is in deep sleep (from the DeepSleep
\* payload to the next hardware reset) no step of any operation writes an
\* opcode or data to the bus.
C15_NoTrafficWhileAsleep ==
    [][asleep => \/ trace' = trace
                 \/ trace' = <<>>
                 \/ trace'[Len(trace')].k \notin {"cmd", "data"}]_vars

\* what the code does: a clear_frame called on the sleeping panel has put
\* its opcode on the bus, and no reset has been issued
C15_TrafficWhileAsleep ==
    /\ asleep
    /\ op.name = "clear_frame"
    /\ prevOp = [name |-> "sleep", res |-> "Ok"]
    /\ Len(trace) = 2
    /\ trace[2] = Cmd("DataStartTransmission1")

\* C15 (amended): the driver keeps no record of the panel sleeping; sleep
\* is the only operation that puts the panel to sleep (with the DeepSleep
\* payload) and the reset of wake_up the only step that ends the sleep:
\* it is the first event of wake_up, so a wake_up called on a sleeping
\* panel has written nothing to the bus before the reset.
C15_ResetFirstOnWake ==
    /\ [](/\ (asleep /\ op.name \in {"new", "wake_up"}) => trace = <<>>
          /\ Returned("sleep") => asleep
          /\ Returned("wake_up") => ~asleep)
    /\ [][(asleep /\ ~asleep') => op.name = "wake_up" /\ trace' = <<Reset>>]_vars
    /\ [][(~asleep /\ asleep')
            => op.name = "sleep" /\ trace' = Append(trace, Data(<<165>>))]_vars

\* wake_up, called right after a sleep, has just pulsed the reset line
C15_Witness ==
    /\ op.name = "wake_up"
    /\ prevOp = [name |-> "sleep", res |-> "Ok"]
    /\ trace = <<Reset>>
    /\ ~asleep
    /\ pc = 2

\* C16: no timeout bounds the wait: in an execution without faults, while
\* the busy line is low an operation that is at a wait does not return,
\* neither Ok nor an error, and issues nothing; and when the controller
\* releases the line after it has raised it, every operation that was
\* started returns Ok.
C16_WaitUnboundedThenOk ==
    /\ [][(pc > 0 /\ Program(op, color)[pc].k = "wait" /\ busy = "low")
            => pc' = pc /\ result' = result /\ trace' = trace /\ op' = op]_vars
    /\ (pc > 0) ~> (pc = 0 /\ result = "Ok")

\* init has returned Ok from a last wait during which the line was busy
C16_Witness ==
    /\ Returned("wake_up")
    /\ woke
    /\ Len(trace) = 19
    /\ prevOp.res = "Ok"

C18_OnlySetterChangesColor ==
    /\ [][color' # color
            => \/ op'.name = "set_background_color"
               \/ op'.name = "new" /\ pc' = 1 /\ epd = "none"]_vars
    /\ [](epd = "ready" => color = IF lastSet = "none" THEN "White" ELSE lastSet)
    /\ []((Returned("update_frame") /\ lastSet # "none")
            => trace[3] = Fill(get_byte_value(lastSet), 38880))

\* black was set before a wake_up, and the update after the wake_up has
\* filled channel 1 with black
C18_Witness ==
    /\ Returned("update_frame")
    /\ prevOp = [name |-> "wake_up", res |-> "Ok"]
    /\ lastSet = "Black"
    /\ trace[3] = Fill(0, 38880)

\* the event after position i of the trace is a wait: it is in the trace,
\* or the operation is about to issue it
WaitFollows(i) ==
    IF i < Len(trace)
    THEN trace[i + 1] = WaitIdle
    ELSE pc = i + 1 /\ Program(op, color)[pc].k = "wait"

\* C19: in an execution without faults, every PowerOn, PowerOff and
\* DisplayRefresh opcode is followed by a wait before anything else is
\* written, the TconSetting opcode by its payload 22 and then the wait, and
\* DataStartTransmission1 by the data of its flood fill, no other opcode
\* coming before it.
C19_WaitAfterPowerAndRefresh ==
    \A i \in 1..Len(trace) :
        /\ trace[i] \in {Cmd("PowerOn"), Cmd("PowerOff"), Cmd("DisplayRefresh")}
              => WaitFollows(i)
        /\ trace[i] = Cmd("TconSetting")
              => /\ i < Len(trace) => trace[i + 1] = Data(<<34>>) /\ WaitFollows(i + 1)
                 /\ i = Len(trace) => pc = i + 1 /\ Program(op, color)[pc].k = "data"
        /\ trace[i] = Cmd("DataStartTransmission1")
              => /\ i < Len(trace) => trace[i + 1].k = "data"
                 /\ i = Len(trace) => pc = i + 1 /\ Program(op, color)[pc].k = "data"

\* a sleep has returned after a display_frame, each with its waits
C19_Witness ==
    /\ Returned("sleep")
    /\ prevOp = [name |-> "display_frame", res |-> "Ok"]
    /\ trace[2] = Cmd("PowerOff")
    /\ trace[3] = WaitIdle

TypeOK ==
    /\ epd \in {"none", "ready"}
    /\ color \in Colors
    /\ busy \in {"low", "high"}
    /\ pc \in 0..Len(Program(op, color))
    /\ waiting \in BOOLEAN
    /\ result \in {"none", "Ok", "Err", "Panic"}
    /\ ret \in Colors \cup {"none"}
    /\ lastSet \in Colors \cup {"none"}
    /\ asleep \in BOOLEAN

====
